---- MODULE Spec2Model ----
(***************************************************************************)
(* TX hardware-timestamp reconciliation of the ravenna network driver      *)
(* (src/modules/net/timestamp.c): the pending-skb ring, the FPGA timestamp *)
(* ring, the interrupt producer, the reconciliation worker, the submission *)
(* gate, flush and the hwtstamp ioctl.                                     *)
(***************************************************************************)
EXTENDS Integers, Sequences, FiniteSets, TLC

\* ---------------------------------------------------------------- constants

\* Ring capacities (main.h is not part of the sources; the specification's
\* scenarios use capacity 4).
RA_NET_TX_TS_LIST_SIZE == 4
RA_NET_TX_SKB_LIST_SIZE == 4
\* sizeof(struct ptp_packet_fpga_timestamp) / sizeof(u32)
TS_PACKET_WORDS == 4
NSEC_PER_SEC == 1000000000

\* ------------------------------------------------------------------- bounds

\* packet handles (addresses the allocator can hand out); 0 is NULL
NumSkb == 4
\* packets submitted in the runs of interrupt, worker and submission
MaxSeq == 4
\* packets submitted in the runs long enough for the timestamp ring to wrap;
\* PTP sequence ids are 10 .. 9 + MaxSeqLap
MaxSeqLap == 5
\* packets submitted in the runs that also reconfigure and flush
MaxSeqFull == 1
\* words the interrupt producer may read past the record size before the marker
MaxScanExtra == 1

Handles == 1..NumSkb
NULL == 0
SeqIds == 10..(9 + MaxSeqLap)
\* pkt[h]: FREE, SHORT (too short to carry a PTP sequence id) or its sequence id
FREE == -1
SHORT == 0
PktData == SeqIds \cup {SHORT}
NO_TSTAMP == -1

TsSlots == 0..(RA_NET_TX_TS_LIST_SIZE - 1)
SkbSlots == 0..(RA_NET_TX_SKB_LIST_SIZE - 1)

ZeroTs == [sequence_id |-> 0, seconds |-> 0, nanoseconds |-> 0]
\* the record the FPGA pushes for the packet with sequence id s
TsRecord(s) == [sequence_id |-> s, seconds |-> s % 2, nanoseconds |-> s]
FifoRecords == {TsRecord(s) : s \in SeqIds}

TxTypes == {"HWTSTAMP_TX_OFF", "HWTSTAMP_TX_ON", "HWTSTAMP_TX_ONESTEP_SYNC"}
RxFilters == {"HWTSTAMP_FILTER_NONE", "HWTSTAMP_FILTER_ALL",
              "HWTSTAMP_FILTER_PTP_V2_L4_EVENT", "HWTSTAMP_FILTER_PTP_V2_L4_SYNC",
              "HWTSTAMP_FILTER_PTP_V2_L4_DELAY_REQ"}

VARIABLES
    skb_ptr,       \* priv->tx_ts.skb_ptr[]
    skb_wr_idx,    \* priv->tx_ts.skb_wr_idx
    skb_rd_idx,    \* priv->tx_ts.skb_rd_idx
    fpga_ts,       \* priv->tx_ts.fpga_ts[]
    ts_wr_idx,     \* priv->tx_ts.ts_wr_idx
    ts_rd_idx,     \* priv->tx_ts.ts_rd_idx
    reenable_irq,  \* priv->tx_ts.reenable_irq
    tx_enable,     \* priv->tx_ts.enable
    rx_ts_enable,  \* priv->rx_ts_enable
    pp_config,     \* RA_NET_PP_CONFIG_ENABLE_PTP_TIMESTAMPS bit of RA_NET_PP_CONFIG
    pp_irq_en,     \* RA_NET_PP_IRQ_PTP_TX_TS_IRQ_AVAILABLE enabled
    work_pending,  \* priv->tx_ts.work is queued
    irq_pc,        \* interrupt producer: "idle" | "scan"
    irq_slot,      \* ts_packet of the running interrupt producer
    w_pc,          \* worker: "idle" | "loop" | "out" | "oops"
    w_skb_rd,      \* worker local skb_rd_idx
    w_ts_rd,       \* worker local ts_rd_idx
    w_iter,        \* passes of the do-while made by the running worker
    pkt,           \* the packets behind the handles
    sent,          \* highest PTP sequence id submitted so far
    stamped,       \* highest PTP sequence id the FPGA has pushed a record for
    hist,          \* per sequence id: record delivered? what became of the packet?
    ev             \* what the last step did (observation only)

vars == <<skb_ptr, skb_wr_idx, skb_rd_idx, fpga_ts, ts_wr_idx, ts_rd_idx,
          reenable_irq, tx_enable, rx_ts_enable, pp_config, pp_irq_en,
          work_pending, irq_pc, irq_slot, w_pc, w_skb_rd, w_ts_rd, w_iter, pkt,
          sent, stamped, hist, ev>>

rings == <<skb_ptr, skb_wr_idx, skb_rd_idx, fpga_ts, ts_wr_idx, ts_rd_idx>>
mode == <<tx_enable, rx_ts_enable, pp_config>>
irqctx == <<irq_pc, irq_slot>>
wctx == <<w_pc, w_skb_rd, w_ts_rd, w_iter>>
env == <<sent, stamped>>

\* ------------------------------------------------------------------ helpers

\* number of entries between a read and a write index
Occupancy(rd, wr, n) == (wr - rd + n) % n

\* slots rd+1 .. wr hold the live entries of a ring
SlotLive(slot, rd, wr, n) ==
    /\ Occupancy(rd, wr, n) > 0
    /\ ((slot - rd + n) % n) \in 1..Occupancy(rd, wr, n)

\* the live entries of the pending ring, oldest first
SkbList(ptr, rd, wr) ==
    [k \in 1..Occupancy(rd, wr, RA_NET_TX_SKB_LIST_SIZE) |->
        ptr[(rd + k) % RA_NET_TX_SKB_LIST_SIZE]]

TsList(ts, rd, wr) ==
    [k \in 1..Occupancy(rd, wr, RA_NET_TX_TS_LIST_SIZE) |->
        ts[(rd + k) % RA_NET_TX_TS_LIST_SIZE]]

IsLive(p, h) == h # NULL /\ p[h] # FREE

\* what a read of skb->data / skb->len yields: the packet, or anything at all
\* for a NULL or already released handle
PacketData(p, h) == IF IsLive(p, h) THEN {p[h]} ELSE PktData

\* one release (kfree_skb / skb_tstamp_tx + kfree_skb) as the log records it
Rel(h, slot, slot_live, p, stamp) ==
    [skb |-> h, slot |-> slot, slot_live |-> slot_live,
     was_live |-> IsLive(p, h), hwtstamp |-> stamp]

Freed(p, h) == IF IsLive(p, h) THEN [p EXCEPT ![h] = FREE] ELSE p

\* op: the step; skb: the handle it was given or read; cmp: the outcome of the
\* sequence id comparison; rel: the releases, in order; ret: the return
\* value; hw: interrupt / mode changes made
NoEv == [op |-> "none", skb |-> NULL, cmp |-> "none", rel |-> <<>>, ret |-> 0, hw |-> 0]

NoFate == [st |-> "none", op |-> "none", hwtstamp |-> NO_TSTAMP]
NoHist == [id \in SeqIds |-> [ts |-> FALSE, used |-> FALSE, fate |-> NoFate]]

Init ==
    /\ skb_ptr = [i \in SkbSlots |-> NULL]
    /\ skb_wr_idx = 0
    /\ skb_rd_idx = 0
    /\ fpga_ts = [i \in TsSlots |-> ZeroTs]
    /\ ts_wr_idx = 0
    /\ ts_rd_idx = 0
    /\ reenable_irq = FALSE
    /\ tx_enable = FALSE
    /\ rx_ts_enable = FALSE
    /\ pp_config = FALSE
    /\ pp_irq_en = FALSE
    /\ work_pending = FALSE
    /\ irq_pc = "idle"
    /\ irq_slot = 0
    /\ w_pc = "idle"
    /\ w_skb_rd = 0
    /\ w_ts_rd = 0
    /\ w_iter = 0
    /\ pkt = [h \in Handles |-> FREE]
    /\ sent = 0
    /\ stamped = 0
    /\ hist = NoHist
    /\ ev = NoEv

\* ----------------------------------------------------- interrupt producer

NextIdx(i, n) == (i + 1) % n

\* The environment. PTP sequence ids are unique and increase (the assumption
\* stated in ra_net_stamp_tx_skb), and the FPGA pushes records in order, for
\* ids up to the last one queued, not necessarily for all of them; an id that
\* was never queued belongs to a PTP packet sent without SKBTX_HW_TSTAMP.
\* A packet too short for a PTP header uses up a sequence id as well.
NextSeqIds == {s \in SeqIds : s > sent}
FifoNext == {rec \in FifoRecords : rec.sequence_id > stamped /\ rec.sequence_id <= sent}
\* the FPGA raises RA_NET_PP_IRQ_PTP_TX_TS_IRQ_AVAILABLE
TsAvailable == pp_irq_en /\ FifoNext # {}

\* the tx_ts.lock is held by the worker from its spin_lock_irqsave to its
\* spin_unlock_irqrestore, and for good by a worker that died inside; every
\* other locked section is one step
LockFree == w_pc \notin {"loop", "oops"}

\* the timestamp and the packet the next pass of the worker's loop reads
WorkerTs == fpga_ts[NextIdx(w_ts_rd, RA_NET_TX_TS_LIST_SIZE)]
WorkerSkb == skb_ptr[NextIdx(w_skb_rd, RA_NET_TX_SKB_LIST_SIZE)]

\* the sequence id of the packet behind a handle a step released
ReleasedId(h) == IF ev'.op = "send_queue" /\ h = ev'.skb THEN sent' ELSE pkt[h]

\* hist follows the step just taken: a record read from the FIFO, a record
\* consumed by the worker, a packet queued, a live packet released
Observe ==
    IF ev'.rel = <<>> /\ ev'.op \notin {"irq_read", "send_queue"} /\ ev'.cmp # "gt"
    THEN hist' = hist
    ELSE hist' = [id \in SeqIds |->
        LET rels == {i \in 1..Len(ev'.rel) :
                        /\ ev'.rel[i].was_live
                        /\ ReleasedId(ev'.rel[i].skb) = id}
        IN [ts |-> hist[id].ts \/ (ev'.op = "irq_read" /\ stamped' = id),
            used |-> hist[id].used \/ (ev'.cmp \in {"eq", "gt"} /\ WorkerTs.sequence_id = id),
            fate |-> IF rels # {}
                     THEN [st |-> "released", op |-> ev'.op,
                           hwtstamp |-> ev'.rel[CHOOSE i \in rels : TRUE].hwtstamp]
                     ELSE IF ev'.op = "send_queue" /\ sent' = id /\ pkt'[ev'.skb] = id
                     THEN [NoFate EXCEPT !.st = "queued"]
                     ELSE hist[id].fate]]

\* ra_net_tx_ts_irq, ring full: set the flag, disable the interrupt, return
IrqFull ==
    /\ irq_pc = "idle"
    /\ TsAvailable
    /\ LockFree
    /\ NextIdx(ts_wr_idx, RA_NET_TX_TS_LIST_SIZE) = ts_rd_idx
    /\ reenable_irq' = TRUE
    /\ pp_irq_en' = FALSE
    /\ ev' = [NoEv EXCEPT !.op = "irq_full"]
    /\ UNCHANGED <<rings, mode, work_pending, irqctx, wctx, pkt, env>>
    /\ Observe

\* ra_net_tx_ts_irq, ring not full: claim the slot and publish the write index
IrqClaim ==
    /\ irq_pc = "idle"
    /\ TsAvailable
    /\ LockFree
    /\ NextIdx(ts_wr_idx, RA_NET_TX_TS_LIST_SIZE) # ts_rd_idx
    /\ irq_slot' = NextIdx(ts_wr_idx, RA_NET_TX_TS_LIST_SIZE)
    /\ ts_wr_idx' = NextIdx(ts_wr_idx, RA_NET_TX_TS_LIST_SIZE)
    /\ irq_pc' = "scan"
    /\ ev' = [NoEv EXCEPT !.op = "irq_claim"]
    /\ UNCHANGED <<skb_ptr, skb_wr_idx, skb_rd_idx, fpga_ts, ts_rd_idx,
                   reenable_irq, mode, pp_irq_en, work_pending, wctx, pkt, env>>
    /\ Observe

\* the u32 loop counter when the marker is the (k+1)-th word read: it starts
\* at TS_PACKET_WORDS and is decremented once per word that is not the marker;
\* "ctr >= 0" never ends the loop, so below zero it wraps (2^32 - n is kept
\* here as -n; only its being zero or not is ever tested)
ScanCtr(k) == TS_PACKET_WORDS - k

\* ra_net_tx_ts_irq after the unlock: scan for the marker, read the record,
\* schedule the worker
IrqScan(k, rec) ==
    /\ irq_pc = "scan"
    /\ irq_pc' = "idle"
    /\ irq_slot' = 0
    /\ IF ScanCtr(k) = 0
       THEN /\ ev' = [NoEv EXCEPT !.op = "irq_nosot"]
            /\ UNCHANGED <<fpga_ts, work_pending>>
       ELSE /\ fpga_ts' = [fpga_ts EXCEPT ![irq_slot] = rec]
            /\ work_pending' = TRUE
            /\ ev' = [NoEv EXCEPT !.op = "irq_read"]
    /\ stamped' = rec.sequence_id
    /\ UNCHANGED <<skb_ptr, skb_wr_idx, skb_rd_idx, ts_wr_idx, ts_rd_idx,
                   reenable_irq, mode, pp_irq_en, wctx, pkt, sent>>
    /\ Observe

\* ---------------------------------------------------------------- worker

\* the seconds scaled as microseconds
Hwtstamp_usec(ts) == ts.seconds * 1000000 + ts.nanoseconds

\* (s64)ts->seconds * NSEC_PER_SEC + ts->nanoseconds
Hwtstamp(ts) == ts.seconds * NSEC_PER_SEC + ts.nanoseconds

\* ra_net_stamp_tx_skb: d is the packet (SHORT or its sequence id)
ra_net_stamp_tx_skb(d, ts) ==
    IF d = SHORT
    THEN [ts_consumed |-> FALSE, skb_consumed |-> TRUE,
          hwtstamp |-> NO_TSTAMP, cmp |-> "short"]
    ELSE IF ts.sequence_id = d
    THEN [ts_consumed |-> TRUE, skb_consumed |-> TRUE,
          hwtstamp |-> Hwtstamp(ts), cmp |-> "eq"]
    ELSE IF ts.sequence_id > d
    THEN [ts_consumed |-> TRUE, skb_consumed |-> FALSE,
          hwtstamp |-> NO_TSTAMP, cmp |-> "gt"]
    ELSE [ts_consumed |-> FALSE, skb_consumed |-> TRUE,
          hwtstamp |-> NO_TSTAMP, cmp |-> "lt"]

\* ra_net_tx_ts_work: lock, load the indices, leave at once on an empty
\* timestamp ring
WorkBegin ==
    /\ work_pending
    /\ w_pc = "idle"
    /\ work_pending' = FALSE
    /\ IF ts_wr_idx = ts_rd_idx
       THEN /\ w_pc' = "out"
            /\ UNCHANGED <<w_skb_rd, w_ts_rd>>
       ELSE /\ w_pc' = "loop"
            /\ w_skb_rd' = skb_rd_idx
            /\ w_ts_rd' = ts_rd_idx
    /\ w_iter' = 0
    /\ ev' = [NoEv EXCEPT !.op = "work_begin"]
    /\ UNCHANGED <<rings, reenable_irq, mode, pp_irq_en, irqctx, pkt, env>>
    /\ Observe

\* one pass of the do-while; the last one stores the indices and unlocks.
\* skb->data of a slot never written is a NULL pointer dereference: the worker
\* dies where it stands, the lock held
WorkIter ==
    /\ w_pc = "loop"
    /\ LET trd == NextIdx(w_ts_rd, RA_NET_TX_TS_LIST_SIZE)
           srd == NextIdx(w_skb_rd, RA_NET_TX_SKB_LIST_SIZE)
           skb == skb_ptr[srd]
           ts == fpga_ts[trd]
       IN IF skb = NULL
          THEN /\ w_pc' = "oops"
               /\ ev' = [NoEv EXCEPT !.op = "oops"]
               /\ UNCHANGED <<pkt, w_skb_rd, w_ts_rd, w_iter, ts_rd_idx, skb_rd_idx>>
          ELSE \E d \in PacketData(pkt, skb) :
          LET r == ra_net_stamp_tx_skb(d, ts)
              srd2 == IF r.skb_consumed THEN srd
                      ELSE (srd + RA_NET_TX_SKB_LIST_SIZE - 1) % RA_NET_TX_SKB_LIST_SIZE
              trd2 == IF r.ts_consumed THEN trd
                      ELSE (trd + RA_NET_TX_TS_LIST_SIZE - 1) % RA_NET_TX_TS_LIST_SIZE
          IN /\ pkt' = IF r.skb_consumed THEN Freed(pkt, skb) ELSE pkt
             /\ ev' = [NoEv EXCEPT
                         !.op = "stamp", !.skb = skb, !.cmp = r.cmp,
                         !.rel = IF r.skb_consumed
                                 THEN <<Rel(skb, srd,
                                            SlotLive(srd, w_skb_rd, skb_wr_idx,
                                                     RA_NET_TX_SKB_LIST_SIZE),
                                            pkt, r.hwtstamp)>>
                                 ELSE <<>>]
             /\ w_skb_rd' = srd2
             /\ w_ts_rd' = trd2
             /\ w_iter' = w_iter + 1
             /\ IF (trd2 # ts_wr_idx) /\ (srd2 # skb_wr_idx)
                THEN /\ w_pc' = "loop"
                     /\ UNCHANGED <<ts_rd_idx, skb_rd_idx>>
                ELSE /\ w_pc' = "out"
                     /\ ts_rd_idx' = trd2
                     /\ skb_rd_idx' = srd2
    /\ UNCHANGED <<skb_ptr, skb_wr_idx, fpga_ts, ts_wr_idx, reenable_irq, mode,
                   pp_irq_en, work_pending, irqctx, env>>
    /\ Observe

\* after the unlock: re-enable the interrupt when the flag is set
WorkOut ==
    /\ w_pc = "out"
    /\ w_pc' = "idle"
    /\ w_skb_rd' = 0
    /\ w_ts_rd' = 0
    /\ w_iter' = 0
    /\ IF reenable_irq
       THEN /\ reenable_irq' = FALSE
            /\ pp_irq_en' = TRUE
            /\ ev' = [NoEv EXCEPT !.op = "work_out", !.hw = 1]
       ELSE /\ UNCHANGED <<reenable_irq, pp_irq_en>>
            /\ ev' = [NoEv EXCEPT !.op = "work_out"]
    /\ UNCHANGED <<rings, mode, work_pending, irqctx, pkt, env>>
    /\ Observe

\* -------------------------------------------------------- submission gate

\* packets that are live but no longer referenced by any ring slot can never
\* be released again; their handles are not tracked any further
Unreferenced(p, ptr) ==
    [h \in Handles |-> IF \E i \in SkbSlots : ptr[i] = h THEN p[h] ELSE FREE]

\* the addresses a new skb can have: a released one some slot still points
\* to, or one no slot points to (these are interchangeable: the lowest)
AllocChoices ==
    LET free == {h \in Handles : pkt[h] = FREE}
        stale == {h \in free : \E i \in SkbSlots : skb_ptr[i] = h}
        fresh == free \ stale
    IN stale \cup {h \in fresh : \A g \in fresh : h <= g}

\* the read index not advanced before the entry is read
OldestIdx_stale(rd) == rd

\* the slot of the oldest entry: the read index, advanced
OldestIdx(rd) == NextIdx(rd, RA_NET_TX_SKB_LIST_SIZE)

\* ra_net_tx_ts_send with timestamping disabled or a packet that does not
\* ask for a hardware timestamp: returns true, nothing is queued
SendPass(hw_tstamp) ==
    /\ irq_pc = "idle"
    /\ (~tx_enable) \/ (~hw_tstamp)
    /\ ev' = [NoEv EXCEPT !.op = "send_pass", !.ret = 1]
    /\ UNCHANGED <<rings, reenable_irq, mode, pp_irq_en, work_pending,
                   irqctx, wctx, pkt, env>>
    /\ Observe

\* ra_net_tx_ts_send, SKBTX_HW_TSTAMP set: queue skb h, the seq-th packet
\* submitted, which carries d (its sequence id, or SHORT: no PTP header),
\* discarding the oldest entry of a full ring
SendQueue(h, seq, d) ==
    /\ irq_pc = "idle"
    /\ tx_enable
    /\ LockFree
    /\ h \in AllocChoices
    /\ LET wr == NextIdx(skb_wr_idx, RA_NET_TX_SKB_LIST_SIZE)
           full == (wr = skb_rd_idx)
           rd == IF full THEN OldestIdx(skb_rd_idx) ELSE skb_rd_idx
           old_skb == skb_ptr[rd]
           pkt0 == [pkt EXCEPT ![h] = d]
           pkt1 == IF full THEN Freed(pkt0, old_skb) ELSE pkt0
           ptr1 == [skb_ptr EXCEPT ![wr] = h]
       IN /\ skb_wr_idx' = wr
          /\ skb_rd_idx' = rd
          /\ skb_ptr' = ptr1
          /\ pkt' = Unreferenced(pkt1, ptr1)
          /\ ev' = [NoEv EXCEPT
                      !.op = "send_queue", !.skb = h,
                      !.rel = IF full
                              THEN <<Rel(old_skb, rd,
                                         SlotLive(rd, skb_rd_idx, skb_wr_idx,
                                                  RA_NET_TX_SKB_LIST_SIZE),
                                         pkt0, NO_TSTAMP)>>
                              ELSE <<>>]
    /\ sent' = seq
    /\ UNCHANGED <<fpga_ts, ts_wr_idx, ts_rd_idx, reenable_irq, mode, pp_irq_en,
                   work_pending, irqctx, wctx, stamped>>
    /\ Observe

\* -------------------------------------------------------------------- flush

\* the handle dev_kfree_skb is given: rd_idx is never assigned, so it is any
\* slot of the ring, or outside of it (then the word read is anything)
FlushRead(rd_idx, garbage) ==
    IF rd_idx \in SkbSlots THEN skb_ptr[rd_idx] ELSE garbage

\* ra_net_flush_tx_ts
Flush(rd_idx, garbage) ==
    /\ w_pc = "idle"
    /\ LET n == Occupancy(skb_rd_idx, skb_wr_idx, RA_NET_TX_SKB_LIST_SIZE)
           p == FlushRead(rd_idx, garbage)
       IN /\ pkt' = IF n > 0 THEN Freed(pkt, p) ELSE pkt
          /\ ev' = [NoEv EXCEPT
                      !.op = "flush",
                      !.rel = [k \in 1..n |->
                                 Rel(p, rd_idx,
                                     rd_idx \in SkbSlots /\
                                     SlotLive(rd_idx,
                                              (skb_rd_idx + k - 1) % RA_NET_TX_SKB_LIST_SIZE,
                                              skb_wr_idx, RA_NET_TX_SKB_LIST_SIZE),
                                     IF k = 1 THEN pkt ELSE Freed(pkt, p),
                                     NO_TSTAMP)]]
    /\ work_pending' = FALSE
    /\ skb_rd_idx' = 0
    /\ skb_wr_idx' = 0
    /\ ts_rd_idx' = 0
    /\ ts_wr_idx' = 0
    /\ UNCHANGED <<skb_ptr, fpga_ts, reenable_irq, mode, pp_irq_en, irqctx, wctx, env>>
    /\ Observe

\* ------------------------------------------------------------ configuration

\* the wanted state taken from the tx setting alone
ra_net_tx_ts_config_txonly(m) ==
    IF m.cfg = m.tx THEN m
    ELSE [m EXCEPT !.cfg = m.tx, !.irq = m.tx, !.hw = m.hw + 1]

\* the mode change performed without comparing have and want
ra_net_tx_ts_config_always(m) ==
    [m EXCEPT !.cfg = m.tx \/ m.rx, !.irq = m.tx \/ m.rx, !.hw = m.hw + 1]

\* ra_net_tx_ts_config: m is [tx, rx, cfg, irq, hw]
ra_net_tx_ts_config(m) ==
    LET have == m.cfg
        want == m.tx \/ m.rx
    IN IF have = want THEN m
       ELSE [m EXCEPT !.cfg = want, !.irq = want, !.hw = m.hw + 1]

EFAULT == 14
EINVAL == 22

\* ra_net_hwtstamp_ioctl on mode m: the mode it leaves and its return value
HwtstampIoctl(m, flags, tx_type, rx_filter, fault_in, fault_out) ==
    IF fault_in THEN [m |-> m, ret |-> -EFAULT]
    ELSE IF flags # 0 THEN [m |-> m, ret |-> -EINVAL]
    ELSE IF tx_type \notin {"HWTSTAMP_TX_OFF", "HWTSTAMP_TX_ON"}
    THEN [m |-> m, ret |-> -EINVAL]
    ELSE LET m1 == ra_net_tx_ts_config([m EXCEPT !.tx = (tx_type = "HWTSTAMP_TX_ON")])
         IN IF rx_filter = "HWTSTAMP_FILTER_NONE"
            THEN [m |-> ra_net_tx_ts_config([m1 EXCEPT !.rx = FALSE]),
                  ret |-> IF fault_out THEN -EFAULT ELSE 0]
            ELSE IF rx_filter \in {"HWTSTAMP_FILTER_PTP_V2_L4_EVENT",
                                   "HWTSTAMP_FILTER_PTP_V2_L4_SYNC",
                                   "HWTSTAMP_FILTER_PTP_V2_L4_DELAY_REQ"}
            THEN [m |-> ra_net_tx_ts_config([m1 EXCEPT !.rx = TRUE]),
                  ret |-> IF fault_out THEN -EFAULT ELSE 0]
            ELSE [m |-> m1, ret |-> -EINVAL]

Ioctl(flags, tx_type, rx_filter, fault_in, fault_out) ==
    LET m == [tx |-> tx_enable, rx |-> rx_ts_enable, cfg |-> pp_config,
              irq |-> pp_irq_en, hw |-> 0]
        r == HwtstampIoctl(m, flags, tx_type, rx_filter, fault_in, fault_out)
    IN /\ tx_enable' = r.m.tx
       /\ rx_ts_enable' = r.m.rx
       /\ pp_config' = r.m.cfg
       /\ pp_irq_en' = r.m.irq
       /\ ev' = [NoEv EXCEPT !.op = "ioctl", !.ret = r.ret, !.hw = r.m.hw]
       /\ UNCHANGED <<rings, reenable_irq, work_pending, irqctx, wctx, pkt, env>>
       /\ Observe

\* -------------------------------------------------------------------- system

Irq ==
    \/ IrqFull
    \/ IrqClaim
    \/ \E k \in 0..(TS_PACKET_WORDS + MaxScanExtra), rec \in FifoNext : IrqScan(k, rec)

Work ==
    \/ WorkBegin
    \/ WorkIter
    \/ WorkOut

\* submissions: any packet, PTP or too short for it
Send ==
    \/ \E hw_tstamp \in BOOLEAN : SendPass(hw_tstamp)
    \/ \E h \in Handles, seq \in {n \in NextSeqIds : n <= 9 + MaxSeqFull} :
          \E d \in {seq, SHORT} : SendQueue(h, seq, d)

\* submissions of PTP packets that ask for a timestamp
SendPtp ==
    \E h \in Handles, seq \in {n \in NextSeqIds : n <= 9 + MaxSeq} :
        SendQueue(h, seq, seq)

\* the same, for longer
SendLap == \E h \in Handles, seq \in NextSeqIds : SendQueue(h, seq, seq)

\* rd_idx = -1 stands for every value outside the ring: what is read there
\* is any word
FlushTxTs ==
    \E rd_idx \in (-1)..(RA_NET_TX_SKB_LIST_SIZE - 1) :
        \E garbage \in IF rd_idx \in SkbSlots THEN {NULL} ELSE 0..NumSkb :
            Flush(rd_idx, garbage)

\* copy_to_user is reached by the accepted requests only; a request that
\* cannot be copied in has no fields
Config ==
    \/ \E flags \in 0..1, tx_type \in TxTypes, rx_filter \in RxFilters :
          Ioctl(flags, tx_type, rx_filter, FALSE, FALSE)
    \/ \E tx_type \in {"HWTSTAMP_TX_OFF", "HWTSTAMP_TX_ON"},
          rx_filter \in RxFilters \ {"HWTSTAMP_FILTER_ALL"} :
          Ioctl(0, tx_type, rx_filter, FALSE, TRUE)
    \/ Ioctl(0, "HWTSTAMP_TX_OFF", "HWTSTAMP_FILTER_NONE", TRUE, FALSE)

\* the interrupt producer while fewer records than slots are ever pushed
IrqDeliver ==
    \/ IrqClaim
    \/ \E k \in 0..(TS_PACKET_WORDS + MaxScanExtra), rec \in FifoNext : IrqScan(k, rec)

Next == IrqDeliver \/ Work \/ Send \/ FlushTxTs \/ Config

\* the driver from its construction, every entry point
Spec == Init /\ [][Next]_vars

\* the state ioctl(HWTSTAMP_TX_ON, HWTSTAMP_FILTER_NONE) leaves the constructed
\* driver in
InitOn ==
    /\ skb_ptr = [i \in SkbSlots |-> NULL]
    /\ skb_wr_idx = 0
    /\ skb_rd_idx = 0
    /\ fpga_ts = [i \in TsSlots |-> ZeroTs]
    /\ ts_wr_idx = 0
    /\ ts_rd_idx = 0
    /\ reenable_irq = FALSE
    /\ tx_enable = TRUE
    /\ rx_ts_enable = FALSE
    /\ pp_config = TRUE
    /\ pp_irq_en = TRUE
    /\ work_pending = FALSE
    /\ irq_pc = "idle"
    /\ irq_slot = 0
    /\ w_pc = "idle"
    /\ w_skb_rd = 0
    /\ w_ts_rd = 0
    /\ w_iter = 0
    /\ pkt = [h \in Handles |-> FREE]
    /\ sent = 0
    /\ stamped = 0
    /\ hist = NoHist
    /\ ev = NoEv

NextPair == Irq \/ Work \/ SendPtp

\* timestamping switched on, then PTP traffic only: submissions, interrupts
\* and worker runs in any interleaving
SpecPair == InitOn /\ [][NextPair]_vars

NextLap == Irq \/ Work \/ SendLap

\* the same traffic, long enough for the timestamp ring to wrap
SpecLap == InitOn /\ [][NextLap]_vars

\* tx timestamping switched on or off, rx timestamping left off
ConfigTx ==
    \E tx_type \in {"HWTSTAMP_TX_OFF", "HWTSTAMP_TX_ON"} :
        Ioctl(0, tx_type, "HWTSTAMP_FILTER_NONE", FALSE, FALSE)

NextMode == Irq \/ Work \/ SendPtp \/ ConfigTx

\* the same traffic with tx timestamping switched off and on in between
SpecMode == InitOn /\ [][NextMode]_vars

\* the worker runs once it is scheduled, the interrupt is served once raised,
\* and packets keep being submitted
FairPair == SpecPair /\ WF_vars(Work) /\ WF_vars(Irq) /\ WF_vars(SendPtp)

\* ------------------------------------------------------------------- claims


\* the worker is about to compare the oldest unread timestamp with the oldest
\* pending packet, a live one that carries a sequence id
Comparing ==
    /\ w_pc = "loop"
    /\ w_skb_rd # skb_wr_idx
    /\ IsLive(pkt, WorkerSkb)
    /\ pkt[WorkerSkb] # SHORT

\* C1: when the timestamp's sequence id is greater than the packet's, the
\* packet is released without a timestamp and its entry consumed, and the
\* timestamp is not consumed.
C1_LostTimestamp ==
    [][(Comparing /\ WorkerTs.sequence_id > pkt[WorkerSkb] /\ ev'.op = "stamp")
        => /\ w_skb_rd' = NextIdx(w_skb_rd, RA_NET_TX_SKB_LIST_SIZE)
           /\ w_ts_rd' = w_ts_rd
           /\ Len(ev'.rel) = 1
           /\ ev'.rel[1].skb = WorkerSkb
           /\ ev'.rel[1].hwtstamp = NO_TSTAMP
           /\ pkt'[WorkerSkb] = FREE]_vars

\* nothing is in flight: no interrupt being served, no worker scheduled or running
Quiescent == irq_pc = "idle" /\ ~work_pending /\ w_pc = "idle"

NoEviction ==
    \A id \in SeqIds : ~(hist[id].fate.st = "released" /\ hist[id].fate.op = "send_queue")

\* C2: with increasing ids submitted without overflow and an in-order
\* subsequence of them delivered as timestamps, once the worker has run after
\* the last delivery every packet whose id was delivered has been released with
\* its own timestamp, and every packet skipped before a delivered later id has
\* been released without one.
C2_Pairing ==
    (Quiescent /\ NoEviction) =>
        \A id \in SeqIds :
            hist[id].fate.st # "none" =>
                /\ hist[id].ts =>
                     hist[id].fate = [st |-> "released", op |-> "stamp",
                                      hwtstamp |-> (id % 2) * 1000000000 + id]
                /\ (~hist[id].ts /\ \E id2 \in SeqIds : id2 > id /\ hist[id2].ts) =>
                     hist[id].fate = [st |-> "released", op |-> "stamp",
                                      hwtstamp |-> NO_TSTAMP]

\* C3: no handle is released more than once, and every handle the worker, the
\* overflow eviction or the flush reads comes from a slot holding a live entry.
C3_ExactlyOnce ==
    \A i \in 1..Len(ev.rel) :
        /\ ev.rel[i].slot_live
        /\ ev.rel[i].skb # NULL => ev.rel[i].was_live

\* C4: when the sequence ids are equal the packet is released with
\* seconds * 1_000_000_000 + nanoseconds attached and both read indices
\* advance by exactly one.
C4_MatchBranch ==
    [][(Comparing /\ WorkerTs.sequence_id = pkt[WorkerSkb] /\ ev'.op = "stamp")
        => /\ Len(ev'.rel) = 1
           /\ ev'.rel[1].skb = WorkerSkb
           /\ ev'.rel[1].hwtstamp =
                 WorkerTs.seconds * 1000000000 + WorkerTs.nanoseconds
           /\ pkt'[WorkerSkb] = FREE
           /\ w_ts_rd' = NextIdx(w_ts_rd, RA_NET_TX_TS_LIST_SIZE)
           /\ w_skb_rd' = NextIdx(w_skb_rd, RA_NET_TX_SKB_LIST_SIZE)
           /\ w_pc' = "out" => /\ ts_rd_idx' = NextIdx(w_ts_rd, RA_NET_TX_TS_LIST_SIZE)
                               /\ skb_rd_idx' = NextIdx(w_skb_rd, RA_NET_TX_SKB_LIST_SIZE)]_vars

\* packet 11, queued and live, has just been released with the record of
\* sequence id 11 (1 s, 11 ns) attached
C4_Witness ==
    /\ ev.op = "stamp"
    /\ ev.cmp = "eq"
    /\ Len(ev.rel) = 1
    /\ ev.rel[1].was_live
    /\ ev.rel[1].slot_live
    /\ ev.rel[1].hwtstamp = 1000000011
    /\ hist[11].ts

\* C5: when the timestamp's sequence id is less than the packet's, the
\* timestamp is consumed and the packet is neither consumed nor released.
C5_OrphanedTimestamp ==
    [][(Comparing /\ WorkerTs.sequence_id < pkt[WorkerSkb] /\ ev'.op = "stamp")
        => /\ w_ts_rd' = NextIdx(w_ts_rd, RA_NET_TX_TS_LIST_SIZE)
           /\ w_skb_rd' = w_skb_rd
           /\ ev'.rel = <<>>
           /\ pkt' = pkt]_vars

\* C6: queueing into a full pending ring releases exactly one entry, the
\* oldest; the new packet becomes the newest entry, the others keep their
\* order and the occupancy stays N-1.
C6_OverflowEviction ==
    [][(ev'.op = "send_queue" /\
        Occupancy(skb_rd_idx, skb_wr_idx, RA_NET_TX_SKB_LIST_SIZE)
            = RA_NET_TX_SKB_LIST_SIZE - 1)
        => LET before == SkbList(skb_ptr, skb_rd_idx, skb_wr_idx)
               after == SkbList(skb_ptr', skb_rd_idx', skb_wr_idx')
           IN /\ Len(ev'.rel) = 1
              /\ ev'.rel[1].skb = before[1]
              /\ ev'.rel[1].hwtstamp = NO_TSTAMP
              /\ Len(after) = RA_NET_TX_SKB_LIST_SIZE - 1
              /\ \A k \in 1..(RA_NET_TX_SKB_LIST_SIZE - 2) : after[k] = before[k + 1]
              /\ after[RA_NET_TX_SKB_LIST_SIZE - 1] = ev'.skb]_vars

\* the ring held packets [10,11,12]; packet 13 was queued, packet 10 released:
\* it holds [11,12,13]
C6_Witness ==
    /\ ev.op = "send_queue"
    /\ Len(ev.rel) = 1
    /\ ev.rel[1].was_live
    /\ hist[10].fate = [st |-> "released", op |-> "send_queue", hwtstamp |-> NO_TSTAMP]
    /\ LET l == SkbList(skb_ptr, skb_rd_idx, skb_wr_idx)
       IN /\ Len(l) = 3
          /\ \A k \in 1..3 : IsLive(pkt, l[k]) /\ pkt[l[k]] = 10 + k

\* C7: the producer that finds the ring full sets the flag and disables the
\* interrupt; the worker never re-enables it while the ring is still full.
C7_Quiescence ==
    /\ ev.op = "irq_full" => (reenable_irq /\ ~pp_irq_en)
    /\ (ev.op = "work_out" /\ ev.hw = 1) =>
          NextIdx(ts_wr_idx, RA_NET_TX_TS_LIST_SIZE) # ts_rd_idx

\* C8: an interrupt disabled on a full ring is eventually re-enabled.
C8_Recovery == (reenable_irq /\ ~pp_irq_en) ~> pp_irq_en

\* C9: a request rejected with -EINVAL leaves tx_enable, rx_ts_enable, the
\* hardware enable bit and the interrupt enable as they were.
C9_RejectedConfig ==
    [][(ev'.op = "ioctl" /\ ev'.ret = -EINVAL)
        => UNCHANGED <<tx_enable, rx_ts_enable, pp_config, pp_irq_en>>]_vars

\* C10: flush releases every pending handle exactly once and no other, and
\* leaves all four indices zero.
C10_Flush ==
    [][ev'.op = "flush"
        => LET pend == SkbList(skb_ptr, skb_rd_idx, skb_wr_idx)
           IN /\ \A h \in Handles :
                    Cardinality({k \in 1..Len(ev'.rel) : ev'.rel[k].skb = h})
                      = Cardinality({k \in 1..Len(pend) : pend[k] = h})
              /\ skb_rd_idx' = 0 /\ skb_wr_idx' = 0
              /\ ts_rd_idx' = 0 /\ ts_wr_idx' = 0]_vars

\* C11: after every configuration call, accepted or rejected, the hardware
\* enable bit is set if and only if tx_enable or rx_ts_enable is true.
C11_ModeInvariant == pp_config <=> (tx_enable \/ rx_ts_enable)

\* a call has completed that left rx timestamping on alone, the bit set
C11_Witness ==
    /\ ev.op = "ioctl"
    /\ ev.ret = 0
    /\ ~tx_enable
    /\ rx_ts_enable
    /\ pp_config

\* C12: a configuration call that asks for the enable setting already in
\* force (the same setting applied a second time) performs no mode change: no
\* queue stop/start, no write of the enable bit, no interrupt toggle.
C12_Idempotent ==
    [][(ev'.op = "ioctl" /\ tx_enable' = tx_enable /\ rx_ts_enable' = rx_ts_enable)
        => /\ ev'.hw = 0
           /\ pp_config' = pp_config
           /\ pp_irq_en' = pp_irq_en]_vars

\* an accepted call found tx timestamping already on and changed nothing
C12_Witness ==
    /\ ev.op = "ioctl"
    /\ ev.ret = 0
    /\ ev.hw = 0
    /\ tx_enable
    /\ ~rx_ts_enable
    /\ pp_config

\* C13: the worker consumes timestamp records in the order the producer wrote
\* them, each one once and none ahead of an older written one, and packets
\* leave the pending ring (to the worker or to the overflow eviction) in the
\* order they were submitted, none ahead of an older packet still queued.
C13_FifoOrder ==
    [][/\ (ev'.op = "stamp" /\ ev'.cmp \in {"eq", "gt"})
           => LET id == WorkerTs.sequence_id
              IN /\ id \in SeqIds
                 /\ hist[id].ts
                 /\ ~hist[id].used
                 /\ \A o \in SeqIds : (o < id /\ hist[o].ts) => hist[o].used
       /\ \A i \in 1..Len(ev'.rel) :
             (ev'.rel[i].was_live /\ ev'.op \in {"stamp", "send_queue"})
               => \A o \in SeqIds :
                     o < pkt[ev'.rel[i].skb] => hist[o].fate.st # "queued"]_vars

\* C14: an interrupt that does not find the start-of-timestamp marker within
\* its scan returns with the timestamp ring's write index as it was before
\* the call.
C14_ScanFailure ==
    [][ev'.op = "irq_nosot"
        => ts_wr_idx' = (irq_slot + RA_NET_TX_TS_LIST_SIZE - 1) % RA_NET_TX_TS_LIST_SIZE]_vars

\* C15: when a call of the interrupt producer that made a scan attempt has
\* returned, found the marker or not, and a record it or an earlier call read
\* into the ring has not been consumed, the worker is scheduled (or still
\* running).
C15_NotStranded ==
    (/\ ev.op \in {"irq_read", "irq_nosot"}
     /\ w_pc = "idle"
     /\ ts_wr_idx # ts_rd_idx
     /\ \E id \in SeqIds : hist[id].ts /\ ~hist[id].used)
        => work_pending

\* C16: a worker run that finds the pending ring empty and the timestamp ring
\* not empty stops at once: it reads no packet slot, releases no packet and
\* leaves the four ring indices unchanged.
C16_EmptyPending ==
    [][(w_pc = "loop" /\ w_skb_rd = skb_wr_idx /\ ev'.op \in {"stamp", "oops"})
        => /\ ev'.op # "oops"
           /\ ev'.rel = <<>>
           /\ pkt' = pkt
           /\ w_pc' = "out"
           /\ UNCHANGED <<skb_rd_idx, skb_wr_idx, ts_rd_idx, ts_wr_idx>>]_vars

\* packets queued and neither released nor evicted; records read into the
\* ring and not consumed
QueuedIds == {id \in SeqIds : hist[id].fate.st = "queued"}
UnreadIds == {id \in SeqIds : hist[id].ts /\ ~hist[id].used}

\* C17: whenever no interrupt call and no worker loop is in progress, each
\* ring holds exactly (wr - rd) mod N live entries, at most N-1; wr = rd
\* exactly when it holds none.
C17_Occupancy ==
    (irq_pc = "idle" /\ w_pc \in {"idle", "out"}) =>
        /\ Cardinality(QueuedIds)
              = Occupancy(skb_rd_idx, skb_wr_idx, RA_NET_TX_SKB_LIST_SIZE)
        /\ Cardinality(UnreadIds)
              = Occupancy(ts_rd_idx, ts_wr_idx, RA_NET_TX_TS_LIST_SIZE)
        /\ Cardinality(QueuedIds) <= RA_NET_TX_SKB_LIST_SIZE - 1
        /\ Cardinality(UnreadIds) <= RA_NET_TX_TS_LIST_SIZE - 1

\* C18: every pass of the worker's loop consumes an entry of at least one
\* ring, and one invocation makes at most N passes.
C18_BoundedWorker ==
    [][ev'.op = "stamp"
        => /\ (w_skb_rd' # w_skb_rd \/ w_ts_rd' # w_ts_rd)
           /\ w_iter' <= RA_NET_TX_SKB_LIST_SIZE
           /\ w_iter' <= RA_NET_TX_TS_LIST_SIZE]_vars

\* C19: the worker never reads a timestamp ring slot that the interrupt
\* producer has claimed and not yet written.
C19_NoUnwrittenRead ==
    [][(ev'.op = "stamp" /\ ev'.cmp \in {"eq", "gt", "lt"})
        => ~(irq_pc = "scan"
             /\ irq_slot = NextIdx(w_ts_rd, RA_NET_TX_TS_LIST_SIZE))]_vars

\* C20: the timestamp-available interrupt is enabled only while the hardware
\* timestamp-enable bit is set.
C20_IrqFollowsMode == pp_irq_en => pp_config

====
